---------------------------- MODULE Spec2Model ----------------------------
(***************************************************************************)
(* falcon-provider-rate-limit: the rate limit providers (utils.py) and the *)
(* middleware (middleware.py) as a state machine over a key/value store    *)
(* with expiry, a clock in unix seconds, the provider object shared by all *)
(* requests, and the requests in flight.                                   *)
(***************************************************************************)
EXTENDS Integers, Sequences, FiniteSets, TLC

VARIABLES
    now,        \* int(time.time()): the clock, unix seconds
    store,      \* the counter store: key -> [val, exp] (exp: absolute second, NoExpiry)
    provider,   \* the one provider object every request goes through:
                \*   backend ("memcache" | "redis": the class constructed),
                \*   global_rlc (_global_rate_limit_control), rlc (_rate_limit_control),
                \*   auth_key, client_key (the constructor's arguments)
    routeCtl,   \* path -> the resource's rate_limit_control attribute
    slots,      \* the requests in flight: slot -> request state (req, resp, locals)
    obs,        \* observer: per client key, the window and second being counted
    twin        \* the same application on the other backend, given the same requests
                \* (its provider, store and request), where two are compared

vars == <<now, store, provider, routeCtl, slots, obs, twin>>

-----------------------------------------------------------------------------
(* Bounds of the model *)

Burst == 1          \* the clock stops at the seconds 0..Burst of a window and at
                    \* the same seconds around the window's end
MaxLimit == 2       \* largest authenticated/unauthenticated limit drawn
MaxDos == 2         \* largest dos_limit drawn
MaxCalls == 8       \* the store calls of a request of which one may be made to fail

-----------------------------------------------------------------------------
(* Python values as they occur in the control dicts and on req.context *)

PyNone == [t |-> "none", v |-> 0, s |-> ""]
PyInt(n) == [t |-> "int", v |-> n, s |-> ""]
PyBool(b) == [t |-> "bool", v |-> IF b THEN 1 ELSE 0, s |-> ""]
PyStr(x) == [t |-> "str", v |-> 0, s |-> x]

\* bool(x)
Truthy(x) ==
    CASE x.t = "none" -> FALSE
      [] x.t = "int"  -> x.v # 0
      [] x.t = "bool" -> x.v # 0
      [] x.t = "str"  -> x.s # ""

\* x or d
PyOr(x, d) == IF Truthy(x) THEN x ELSE d

\* x == n, for an int n (bool is an int; None and str never equal a number)
PyEqInt(x, n) == x.t \in {"int", "bool"} /\ x.v = n

\* x is True
PyIsTrue(x) == x.t = "bool" /\ x.v = 1

\* the number a numeric value stands for in arithmetic
Num(x) == x.v

IsNumeric(x) == x.t \in {"int", "bool"}

\* str(x)
PyToStr(x) ==
    CASE x.t = "none" -> "None"
      [] x.t = "int"  -> ToString(x.v)
      [] x.t = "bool" -> IF x.v = 1 THEN "True" ELSE "False"
      [] x.t = "str"  -> x.s

\* d.get(k) and d.get(k, default) on a dict modelled as a function
DictGet(d, k) == IF k \in DOMAIN d THEN d[k] ELSE PyNone
DictGetDefault(d, k, dflt) == IF k \in DOMAIN d THEN d[k] ELSE dflt

\* dict(base) followed by .update(over)
DictUpdate(base, over) ==
    [k \in DOMAIN base \cup DOMAIN over |-> IF k \in DOMAIN over THEN over[k] ELSE base[k]]

EmptyDict == [k \in {} |-> PyNone]

ControlKeys ==
    {"enabled", "authenticated_limit", "dos_limit", "global_limit",
     "limit_window", "unauthenticated_limit"}

-----------------------------------------------------------------------------
(* RateLimitProvider: the control dicts and the properties read from them *)

\* __init__: the built-in defaults, updated with the dict given to the constructor
ProviderDefaults ==
    [k \in ControlKeys |->
        CASE k = "enabled" -> PyBool(TRUE)
          [] k = "authenticated_limit" -> PyNone
          [] k = "dos_limit" -> PyNone
          [] k = "global_limit" -> PyBool(TRUE)
          [] k = "limit_window" -> PyInt(30)
          [] k = "unauthenticated_limit" -> PyNone]

ProviderInit(given) == DictUpdate(ProviderDefaults, given)

\* rate_limit_control(rate_limit_control): the new value of _rate_limit_control
rate_limit_control(g, over) == DictUpdate(g, over)

authenticated_limit(c) == PyOr(DictGet(c, "authenticated_limit"), PyInt(0))

unauthenticated_limit(c) == PyOr(DictGet(c, "unauthenticated_limit"), PyInt(0))

dos_limit(c) == PyOr(DictGet(c, "dos_limit"), PyInt(0))

global_limit(c) == DictGetDefault(c, "global_limit", PyBool(TRUE))

\* enabled as it would be leaving unauthenticated_limit out of the test
enabled_TwoLimits(c) ==
    LET e == PyOr(DictGet(c, "enabled"), PyBool(FALSE))
    IN  IF /\ PyIsTrue(e)
           /\ PyEqInt(dos_limit(c), 0)
           /\ PyEqInt(authenticated_limit(c), 0)
        THEN PyBool(FALSE)
        ELSE e

\* enabled: get('enabled') or False, and False if it is True and the three limits
\* are all 0
enabled(c) ==
    LET e == PyOr(DictGet(c, "enabled"), PyBool(FALSE))
    IN  IF /\ PyIsTrue(e)
           /\ PyEqInt(dos_limit(c), 0)
           /\ PyEqInt(authenticated_limit(c), 0)
           /\ PyEqInt(unauthenticated_limit(c), 0)
        THEN PyBool(FALSE)
        ELSE e

\* int(x) raises TypeError for None and ValueError for a non-numeric string
limit_window_raises(c) == ~IsNumeric(DictGet(c, "limit_window"))

\* int(...) or 15
limit_window(c) ==
    LET w == Num(DictGet(c, "limit_window")) IN IF w # 0 THEN w ELSE 15

-----------------------------------------------------------------------------
(* The request as the provider reads it *)

\* authenticated as it would be testing for the attribute alone
authenticated_PresentOnly(p, req) ==
    /\ p.auth_key.t = "str"
    /\ p.auth_key.s \in DOMAIN req.context

\* getattr(req.context, name) is truthy; a missing attribute (AttributeError) and
\* name = None (TypeError) are caught and give False
authenticated(p, req) ==
    /\ p.auth_key.t = "str"
    /\ p.auth_key.s \in DOMAIN req.context
    /\ Truthy(req.context[p.auth_key.s])

\* limit(req)
limit(p, req) ==
    IF authenticated(p, req) THEN authenticated_limit(p.rlc)
    ELSE unauthenticated_limit(p.rlc)

\* client_key as it would be taking the peer address before the forwarded chain
client_key_PeerAddressFirst(p, req) ==
    LET addr == IF req.remote_addr # "" THEN req.remote_addr
                ELSE IF Len(req.access_route) > 0 THEN req.access_route[1] ELSE ""
        base == IF /\ Truthy(p.client_key)
                   /\ p.client_key.s \in DOMAIN req.context
                   /\ Truthy(req.context[p.client_key.s])
                THEN PyToStr(req.context[p.client_key.s])
                ELSE addr
    IN  IF ~Truthy(global_limit(p.rlc)) THEN base \o req.path ELSE base

\* client_key as it would be never adding the path
client_key_NoPath(p, req) ==
    LET addr == IF Len(req.access_route) > 0 /\ req.access_route[1] # ""
                THEN req.access_route[1]
                ELSE req.remote_addr
    IN  IF /\ Truthy(p.client_key)
           /\ p.client_key.s \in DOMAIN req.context
           /\ Truthy(req.context[p.client_key.s])
        THEN PyToStr(req.context[p.client_key.s])
        ELSE addr

\* client_key(req, resource): access_route[0] or remote_addr, replaced by
\* str(req.context.<client_key>) if that is configured, present and truthy, and
\* followed by req.path if global_limit is not truthy
client_key(p, req) ==
    LET addr == IF Len(req.access_route) > 0 /\ req.access_route[1] # ""
                THEN req.access_route[1]
                ELSE req.remote_addr
        base == IF /\ Truthy(p.client_key)
                   /\ p.client_key.s \in DOMAIN req.context
                   /\ Truthy(req.context[p.client_key.s])
                THEN PyToStr(req.context[p.client_key.s])
                ELSE addr
    IN  IF ~Truthy(global_limit(p.rlc)) THEN base \o req.path ELSE base

-----------------------------------------------------------------------------
(* The counter store: memcached and Redis as the providers use them *)

NoExpiry == -1

IsLive(st, t, k) == k \in DOMAIN st /\ (st[k].exp = NoExpiry \/ t < st[k].exp)

\* what the store holds at time t: expired entries are gone
Live(st, t) == [k \in {x \in DOMAIN st : IsLive(st, t, x)} |-> st[k]]

\* get: hit tells a live key from a miss (None)
KvGet(st, t, k) ==
    IF IsLive(st, t, k) THEN [hit |-> TRUE, val |-> st[k].val]
    ELSE [hit |-> FALSE, val |-> 0]

\* memcached set(key, value, expire) and Redis setex(key, seconds, value)
KvSetEx(st, t, k, v, ttl) ==
    (k :> [val |-> v, exp |-> t + ttl]) @@ Live(st, t)

\* memcached incr: a missing key is left missing
MemcacheIncr(st, t, k, d) ==
    IF IsLive(st, t, k)
    THEN [Live(st, t) EXCEPT ![k].val = @ + d]
    ELSE Live(st, t)

\* Redis incrby: a missing key is created with the delta and no expiry
RedisIncrBy(st, t, k, d) ==
    IF IsLive(st, t, k)
    THEN [Live(st, t) EXCEPT ![k].val = @ + d]
    ELSE (k :> [val |-> d, exp |-> NoExpiry]) @@ Live(st, t)

\* Redis expire(key, seconds)
RedisExpire(st, t, k, sec) ==
    IF IsLive(st, t, k)
    THEN [Live(st, t) EXCEPT ![k].exp = t + sec]
    ELSE Live(st, t)

\* Redis ttl: -2 for a missing key, -1 for a key without expiry
RedisTtl(st, t, k) ==
    IF ~IsLive(st, t, k) THEN -2
    ELSE IF st[k].exp = NoExpiry THEN -1
    ELSE st[k].exp - t

\* the keys the providers derive from the client key
DosKey(ck, ts) == ck \o ":" \o ToString(ts)
ExpiresKey(ck) == ck \o "-expires"

-----------------------------------------------------------------------------
(* The provider's store methods, one store call each *)

\* client_count: get(client_key) or 0
client_count(p, st, t, ck) == KvGet(st, t, ck).val

\* client_count_incr as it would be starting the window's time anew
client_count_incr_ExtendsExpiry(p, st, t, ck) ==
    KvSetEx(st, t, ck, KvGet(st, t, ck).val + 1, limit_window(p.rlc) * 60)

\* client_count_incr: memcached incr / Redis incrby
client_count_incr(p, st, t, ck) ==
    IF p.backend = "memcache" THEN MemcacheIncr(st, t, ck, 1)
    ELSE RedisIncrBy(st, t, ck, 1)

\* client_count_set as it would be with the expiry left out
client_count_set_NoExpiry(p, st, t, ck) ==
    (ck :> [val |-> 1, exp |-> NoExpiry]) @@ Live(st, t)

\* client_count_set as it would be adding to a counter that is there
client_count_set_AddsIfPresent(p, st, t, ck) ==
    IF IsLive(st, t, ck) THEN [Live(st, t) EXCEPT ![ck].val = @ + 1]
    ELSE KvSetEx(st, t, ck, 1, limit_window(p.rlc) * 60)

\* client_count_set, the counter: set(key, 1, expire) / setex(key, seconds, 1)
client_count_set(p, st, t, ck) ==
    KvSetEx(st, t, ck, 1, limit_window(p.rlc) * 60)

\* client_count_set_expires as it would be storing the window's length
client_count_set_expires_StoresTtl(p, st, t, ck) ==
    KvSetEx(st, t, ExpiresKey(ck), limit_window(p.rlc) * 60, limit_window(p.rlc) * 60)

\* client_count_set, memcached only: the '-expires' key holding the expiry time
client_count_set_expires(p, st, t, ck) ==
    KvSetEx(st, t, ExpiresKey(ck), t + limit_window(p.rlc) * 60, limit_window(p.rlc) * 60)

\* client_key_expires: memcached reads the '-expires' key (or 0), Redis adds the
\* ttl (0 for -1 and -2) to int(time.time())
client_key_expires(p, st, t, ck) ==
    IF p.backend = "memcache" THEN KvGet(st, t, ExpiresKey(ck)).val
    ELSE LET e == RedisTtl(st, t, ck) IN t + (IF e \in {-1, -2} THEN 0 ELSE e)

\* dos_count as it would be reading the bucket of the second before
dos_count_PreviousSecond(p, st, t, ck) == KvGet(st, t, DosKey(ck, t - 1)).val

\* dos_count: get('{client_key}:{ts}') or 0
dos_count(p, st, t, ck) == KvGet(st, t, DosKey(ck, t)).val

\* int(expires - time.time()): fr = 1 when time.time() has a fractional part
RetryAfter(expires, t, fr) ==
    IF fr = 1 /\ expires - t >= 1 THEN expires - t - 1 ELSE expires - t

-----------------------------------------------------------------------------
(* A request in flight: the request, the response and process_resource's locals *)

NoData == [set |-> FALSE, reached |-> FALSE, remaining |-> 0, reset |-> 0, retry_after |-> 0]

IdleSlot ==
    [phase |-> "idle", pc |-> "", req |-> [remote_addr |-> "", access_route |-> <<>>,
                                           path |-> "", context |-> EmptyDict],
     ck |-> "", ts |-> 0, count |-> 0, dos_data |-> NoData, rl_data |-> NoData,
     lim |-> PyInt(0), ctx |-> EmptyDict, complete |-> FALSE, headers |-> EmptyDict,
     status |-> 200, body |-> "", err |-> "", calls |-> <<>>, failAt |-> 0, frac |-> 0]

\* a routed request entering process_resource; failAt: which of its store calls
\* fails (0: none), frac: whether time.time() has a fractional part
NewSlot(q, failAt, frac) ==
    [IdleSlot EXCEPT !.phase = "resource", !.pc = "start", !.req = q,
                     !.failAt = failAt, !.frac = frac]

\* the next store call of the request is the one that fails
Fails(r) == r.failAt = Len(r.calls) + 1

Logged(r, op, key) == [r EXCEPT !.calls = Append(@, <<op, key>>)]

\* an exception leaves process_resource; unless a later hook answers otherwise the
\* framework answers 500
Raise(r, e) == [r EXCEPT !.phase = "raised", !.pc = "", !.err = e, !.status = 500]

\* process_resource returns
Return(r) == [r EXCEPT !.phase = "routed", !.pc = ""]

\* resource.rate_limit_control if the resource has one and it is a dict, else {}
ResourceControl(res) == IF res.has /\ res.isdict THEN res.d ELSE EmptyDict

-----------------------------------------------------------------------------
(* process_resource, one step per store call.  Each step maps the request   *)
(* state r, the store st, the clock t and the provider p to what they are   *)
(* after the step.                                                          *)

Out(r, st, p) == [r |-> r, st |-> st, p |-> p]

\* a store call that raises: the call is made, nothing else happens
Failed(r, st, p, op, key) == Out(Raise(Logged(r, op, key), "StoreUnavailable"), st, p)

\* StepStart as it would be without the dos_limit != 0 test
StepStart_AlwaysDos(r, st, t, p) ==
    LET p1 == [p EXCEPT !.rlc =
                 rate_limit_control(p.global_rlc, ResourceControl(routeCtl[r.req.path]))]
    IN  IF ~Truthy(enabled(p1.rlc)) THEN Out(Return(r), st, p1)
        ELSE Out([r EXCEPT !.ck = client_key(p1, r.req), !.pc = "dos_count"], st, p1)

\* StepStart as it would be without the enabled test
StepStart_NoEnabledTest(r, st, t, p) ==
    LET p1 == [p EXCEPT !.rlc =
                 rate_limit_control(p.global_rlc, ResourceControl(routeCtl[r.req.path]))]
    IN  Out([r EXCEPT !.ck = client_key(p1, r.req),
                      !.pc = IF ~PyEqInt(dos_limit(p1.rlc), 0)
                             THEN "dos_count" ELSE "limit"],
            st, p1)

\* StepStart as it would be updating the control of the request before instead of
\* a copy of the global control
StepStart_MergesOntoCurrent(r, st, t, p) ==
    LET p1 == [p EXCEPT !.rlc =
                 rate_limit_control(p.rlc, ResourceControl(routeCtl[r.req.path]))]
    IN  IF ~Truthy(enabled(p1.rlc)) THEN Out(Return(r), st, p1)
        ELSE Out([r EXCEPT !.ck = client_key(p1, r.req),
                           !.pc = IF ~PyEqInt(dos_limit(p1.rlc), 0)
                                  THEN "dos_count" ELSE "limit"],
                 st, p1)

\* provider.rate_limit_control(...), the enabled test, client_key(...), the
\* dos_limit != 0 test
StepStart(r, st, t, p) ==
    LET p1 == [p EXCEPT !.rlc =
                 rate_limit_control(p.global_rlc, ResourceControl(routeCtl[r.req.path]))]
    IN  IF ~Truthy(enabled(p1.rlc)) THEN Out(Return(r), st, p1)
        ELSE Out([r EXCEPT !.ck = client_key(p1, r.req),
                           !.pc = IF ~PyEqInt(dos_limit(p1.rlc), 0)
                                  THEN "dos_count" ELSE "limit"],
                 st, p1)

\* dos_limit_reached: dos_count(...), the dlr dict, the dos_count + 1 > dos_limit test
StepDosCount(r, st, t, p) ==
    IF Fails(r) THEN Failed(r, st, p, "get", DosKey(r.ck, t))
    ELSE IF ~IsNumeric(dos_limit(p.rlc))
    THEN Out(Raise(Logged(r, "get", DosKey(r.ck, t)), "TypeError"), st, p)
    ELSE
    LET c == dos_count(p, st, t, r.ck)
        dl == Num(dos_limit(p.rlc))
        dlr == [set |-> TRUE, reached |-> c + 1 > dl, remaining |-> dl - c,
                reset |-> t + 1, retry_after |-> 0]
        r1 == [Logged(r, "get", DosKey(r.ck, t)) EXCEPT !.dos_data = dlr]
    IN  IF c + 1 > dl THEN Out([r1 EXCEPT !.pc = "dos_record"], st, p)
        ELSE Out([r1 EXCEPT !.pc = IF p.backend = "memcache"
                                   THEN "dos_incr_get" ELSE "dos_incrby"], st, p)

\* Memcache dos_count_incr: ts = int(time.time()); get(dos_key) is None
StepDosIncrGet(r, st, t, p) ==
    IF Fails(r) THEN Failed(r, st, p, "get", DosKey(r.ck, t))
    ELSE Out([Logged(r, "get", DosKey(r.ck, t)) EXCEPT
                 !.ts = t,
                 !.pc = IF KvGet(st, t, DosKey(r.ck, t)).hit
                        THEN "dos_incr_incr" ELSE "dos_incr_set"], st, p)

\* Memcache dos_count_incr: set(key=dos_key, value=0, expire=1)
StepDosIncrSet(r, st, t, p) ==
    IF Fails(r) THEN Failed(r, st, p, "set", DosKey(r.ck, r.ts))
    ELSE Out([Logged(r, "set", DosKey(r.ck, r.ts)) EXCEPT !.pc = "dos_incr_incr"],
             KvSetEx(st, t, DosKey(r.ck, r.ts), 0, 1), p)

\* Memcache dos_count_incr: incr(dos_key, 1); then dlr['rate_limit_remaining'] -= 1
StepDosIncrIncr(r, st, t, p) ==
    IF Fails(r) THEN Failed(r, st, p, "incr", DosKey(r.ck, r.ts))
    ELSE Out([Logged(r, "incr", DosKey(r.ck, r.ts)) EXCEPT
                 !.dos_data.remaining = @ - 1, !.pc = "dos_record"],
             MemcacheIncr(st, t, DosKey(r.ck, r.ts), 1), p)

\* Redis dos_count_incr: ts = int(time.time()); incrby(dos_key, 1)
StepDosIncrBy(r, st, t, p) ==
    IF Fails(r) THEN Failed(r, st, p, "incrby", DosKey(r.ck, t))
    ELSE Out([Logged(r, "incrby", DosKey(r.ck, t)) EXCEPT !.ts = t, !.pc = "dos_expire"],
             RedisIncrBy(st, t, DosKey(r.ck, t), 1), p)

\* Redis dos_count_incr: expire(dos_key, 5); then dlr['rate_limit_remaining'] -= 1
StepDosExpire(r, st, t, p) ==
    IF Fails(r) THEN Failed(r, st, p, "expire", DosKey(r.ck, r.ts))
    ELSE Out([Logged(r, "expire", DosKey(r.ck, r.ts)) EXCEPT
                 !.dos_data.remaining = @ - 1, !.pc = "dos_record"],
             RedisExpire(st, t, DosKey(r.ck, r.ts), 5), p)

DosDescription(c) ==
    "Client exceeded rate limit of " \o PyToStr(dos_limit(c)) \o " requests per seconds."

\* process_resource: the DoS decision goes into resp.context
StepDosRecord(r, st, t, p) ==
    LET rec == [k \in {"rate_limit", "rate_limit_reached", "rate_limit_remaining",
                       "rate_limit_reset"} |->
                  CASE k = "rate_limit" -> dos_limit(p.rlc)
                    [] k = "rate_limit_reached" -> PyBool(r.dos_data.reached)
                    [] k = "rate_limit_remaining" -> PyInt(r.dos_data.remaining)
                    [] k = "rate_limit_reset" -> PyInt(r.dos_data.reset)]
        c1 == DictUpdate(r.ctx, rec)
    IN  IF r.dos_data.reached
        THEN Out([r EXCEPT !.ctx = DictUpdate(c1,
                               [k \in {"rate_limit_description"} |->
                                   PyStr(DosDescription(p.rlc))]),
                           !.complete = TRUE, !.pc = "limit"], st, p)
        ELSE Out([r EXCEPT !.ctx = c1, !.pc = "limit"], st, p)

\* StepLimit as it would be without the test of the DoS decision
StepLimit_IgnoresDos(r, st, t, p) ==
    LET lim == limit(p, r.req)
    IN  IF ~PyEqInt(lim, 0)
        THEN Out([r EXCEPT !.lim = lim, !.pc = "q_count"], st, p)
        ELSE Out(Return([r EXCEPT !.lim = lim]), st, p)

\* process_resource: limit = provider.limit(req); the quota guard runs if the
\* context holds no reached decision and limit != 0
StepLimit(r, st, t, p) ==
    LET lim == limit(p, r.req)
    IN  IF ~Truthy(DictGet(r.ctx, "rate_limit_reached")) /\ ~PyEqInt(lim, 0)
        THEN Out([r EXCEPT !.lim = lim, !.pc = "q_count"], st, p)
        ELSE Out(Return([r EXCEPT !.lim = lim]), st, p)

\* StepQCount as it would be taking a failed read for a count of 0
StepQCount_FailOpen(r, st, t, p) ==
    IF ~IsNumeric(r.lim)
    THEN Out(Raise(Logged(r, "get", r.ck), "TypeError"), st, p)
    ELSE
    LET c == IF Fails(r) THEN 0 ELSE client_count(p, st, t, r.ck)
    IN  Out([Logged(r, "get", r.ck) EXCEPT
                !.count = c,
                !.rl_data = [set |-> TRUE, reached |-> FALSE,
                             remaining |-> Num(r.lim) - c, reset |-> 0, retry_after |-> 0],
                !.pc = "q_expires1"], st, p)

\* rate_limit_reached: client_count(...); 'rate_limit_remaining': limit - client_count
StepQCount(r, st, t, p) ==
    IF Fails(r) THEN Failed(r, st, p, "get", r.ck)
    ELSE IF ~IsNumeric(r.lim)
    THEN Out(Raise(Logged(r, "get", r.ck), "TypeError"), st, p)
    ELSE
    LET c == client_count(p, st, t, r.ck)
    IN  Out([Logged(r, "get", r.ck) EXCEPT
                !.count = c,
                !.rl_data = [set |-> TRUE, reached |-> FALSE,
                             remaining |-> Num(r.lim) - c, reset |-> 0, retry_after |-> 0],
                !.pc = "q_expires1"], st, p)

ExpiresCall(p, ck) ==
    IF p.backend = "memcache" THEN <<"get", ExpiresKey(ck)>> ELSE <<"ttl", ck>>

\* rate_limit_reached: 'rate_limit_reset': client_key_expires(client_key)
StepQExpires1(r, st, t, p) ==
    IF Fails(r) THEN Failed(r, st, p, ExpiresCall(p, r.ck)[1], ExpiresCall(p, r.ck)[2])
    ELSE Out([Logged(r, ExpiresCall(p, r.ck)[1], ExpiresCall(p, r.ck)[2]) EXCEPT
                 !.rl_data.reset = client_key_expires(p, st, t, r.ck),
                 !.pc = "q_expires2"], st, p)

\* rate_limit_reached: 'retry_after': int(client_key_expires(client_key) - time.time()),
\* then the client_count == 0 test
StepQExpires2(r, st, t, p) ==
    IF Fails(r) THEN Failed(r, st, p, ExpiresCall(p, r.ck)[1], ExpiresCall(p, r.ck)[2])
    ELSE Out([Logged(r, ExpiresCall(p, r.ck)[1], ExpiresCall(p, r.ck)[2]) EXCEPT
                 !.rl_data.retry_after =
                     RetryAfter(client_key_expires(p, st, t, r.ck), t, r.frac),
                 !.pc = IF r.count = 0 THEN "q_set" ELSE "q_count2"], st, p)

SetCall(p) == IF p.backend = "memcache" THEN "set" ELSE "setex"

\* client_count_set: the counter becomes 1 with the window as its expiry; on Redis
\* the method is done and rlr['rate_limit_remaining'] -= 1
StepQSet(r, st, t, p) ==
    IF limit_window_raises(p.rlc) THEN Out(Raise(r, "TypeError"), st, p)
    ELSE IF Fails(r) THEN Failed(r, st, p, SetCall(p), r.ck)
    ELSE IF p.backend = "memcache"
    THEN Out([Logged(r, "set", r.ck) EXCEPT !.pc = "q_set_expires"],
             client_count_set(p, st, t, r.ck), p)
    ELSE Out([Logged(r, "setex", r.ck) EXCEPT
                 !.rl_data.remaining = @ - 1, !.pc = "q_record"],
             client_count_set(p, st, t, r.ck), p)

\* Memcache client_count_set: the '-expires' key; then rlr['rate_limit_remaining'] -= 1
StepQSetExpires(r, st, t, p) ==
    IF limit_window_raises(p.rlc) THEN Out(Raise(r, "TypeError"), st, p)
    ELSE IF Fails(r) THEN Failed(r, st, p, "set", ExpiresKey(r.ck))
    ELSE Out([Logged(r, "set", ExpiresKey(r.ck)) EXCEPT
                 !.rl_data.remaining = @ - 1, !.pc = "q_record"],
             client_count_set_expires(p, st, t, r.ck), p)

\* StepQCount2 as it would be counting the request it rejects
StepQCount2_CountsRejected(r, st, t, p) ==
    IF Fails(r) THEN Failed(r, st, p, "get", r.ck)
    ELSE IF client_count(p, st, t, r.ck) + 1 > Num(r.lim)
    THEN Out([Logged(r, "get", r.ck) EXCEPT !.rl_data.reached = TRUE, !.pc = "q_record"],
             client_count_incr(p, st, t, r.ck), p)
    ELSE Out([Logged(r, "get", r.ck) EXCEPT !.pc = "q_incr"], st, p)

\* StepQCount2 as it would be with the test client_count > limit
StepQCount2_OffByOne(r, st, t, p) ==
    IF Fails(r) THEN Failed(r, st, p, "get", r.ck)
    ELSE IF client_count(p, st, t, r.ck) > Num(r.lim)
    THEN Out([Logged(r, "get", r.ck) EXCEPT !.rl_data.reached = TRUE, !.pc = "q_record"],
             st, p)
    ELSE Out([Logged(r, "get", r.ck) EXCEPT !.pc = "q_incr"], st, p)

\* rate_limit_reached: elif self.client_count(client_key) + 1 > limit
StepQCount2(r, st, t, p) ==
    IF Fails(r) THEN Failed(r, st, p, "get", r.ck)
    ELSE IF client_count(p, st, t, r.ck) + 1 > Num(r.lim)
    THEN Out([Logged(r, "get", r.ck) EXCEPT !.rl_data.reached = TRUE, !.pc = "q_record"],
             st, p)
    ELSE Out([Logged(r, "get", r.ck) EXCEPT !.pc = "q_incr"], st, p)

IncrCall(p) == IF p.backend = "memcache" THEN "incr" ELSE "incrby"

\* StepQIncr as it would be with rlr['rate_limit_remaining'] += 1
StepQIncr_AddsOne(r, st, t, p) ==
    IF Fails(r) THEN Failed(r, st, p, IncrCall(p), r.ck)
    ELSE Out([Logged(r, IncrCall(p), r.ck) EXCEPT
                 !.rl_data.remaining = @ + 1, !.pc = "q_record"],
             client_count_incr(p, st, t, r.ck), p)

\* rate_limit_reached: client_count_incr(client_key); rlr['rate_limit_remaining'] -= 1
StepQIncr(r, st, t, p) ==
    IF Fails(r) THEN Failed(r, st, p, IncrCall(p), r.ck)
    ELSE Out([Logged(r, IncrCall(p), r.ck) EXCEPT
                 !.rl_data.remaining = @ - 1, !.pc = "q_record"],
             client_count_incr(p, st, t, r.ck), p)

QuotaDescription(lim, w) ==
    "Client exceeded rate limit of " \o PyToStr(lim) \o " requests per "
        \o ToString(w) \o " minutes."

\* process_resource: the quota decision goes into resp.context
StepQRecord(r, st, t, p) ==
    LET rec == [k \in {"rate_limit", "rate_limit_reached", "rate_limit_remaining",
                       "rate_limit_reset", "retry_after"} |->
                  CASE k = "rate_limit" -> r.lim
                    [] k = "rate_limit_reached" -> PyBool(r.rl_data.reached)
                    [] k = "rate_limit_remaining" -> PyInt(r.rl_data.remaining)
                    [] k = "rate_limit_reset" -> PyInt(r.rl_data.reset)
                    [] k = "retry_after" -> PyInt(r.rl_data.retry_after)]
        c1 == DictUpdate(r.ctx, rec)
    IN  IF ~r.rl_data.reached THEN Out(Return([r EXCEPT !.ctx = c1]), st, p)
        ELSE IF limit_window_raises(p.rlc)
        THEN Out(Raise([r EXCEPT !.ctx = c1], "TypeError"), st, p)
        ELSE Out(Return([r EXCEPT
                     !.ctx = DictUpdate(c1,
                        [k \in {"rate_limit_description"} |->
                            PyStr(QuotaDescription(r.lim, limit_window(p.rlc)))]),
                     !.complete = TRUE]), st, p)

\* one step of process_resource
Step(r, st, t, p) ==
    CASE r.pc = "start" -> StepStart(r, st, t, p)
      [] r.pc = "dos_count" -> StepDosCount(r, st, t, p)
      [] r.pc = "dos_incr_get" -> StepDosIncrGet(r, st, t, p)
      [] r.pc = "dos_incr_set" -> StepDosIncrSet(r, st, t, p)
      [] r.pc = "dos_incr_incr" -> StepDosIncrIncr(r, st, t, p)
      [] r.pc = "dos_incrby" -> StepDosIncrBy(r, st, t, p)
      [] r.pc = "dos_expire" -> StepDosExpire(r, st, t, p)
      [] r.pc = "dos_record" -> StepDosRecord(r, st, t, p)
      [] r.pc = "limit" -> StepLimit(r, st, t, p)
      [] r.pc = "q_count" -> StepQCount(r, st, t, p)
      [] r.pc = "q_expires1" -> StepQExpires1(r, st, t, p)
      [] r.pc = "q_expires2" -> StepQExpires2(r, st, t, p)
      [] r.pc = "q_set" -> StepQSet(r, st, t, p)
      [] r.pc = "q_set_expires" -> StepQSetExpires(r, st, t, p)
      [] r.pc = "q_count2" -> StepQCount2(r, st, t, p)
      [] r.pc = "q_incr" -> StepQIncr(r, st, t, p)
      [] r.pc = "q_record" -> StepQRecord(r, st, t, p)

\* process_resource from its first line to its return or raise, with the clock at t
RECURSIVE Run(_, _, _, _)
Run(r, st, t, p) ==
    IF r.phase # "resource" THEN Out(r, st, p)
    ELSE LET n == Step(r, st, t, p) IN Run(n.r, n.st, t, n.p)

-----------------------------------------------------------------------------
(* process_response and the responder *)

\* resp.set_header(name, value): the value is kept as str(value)
SetHeader(h, name, value) == (name :> PyToStr(value)) @@ h

\* RateLimitHeaders as it would be testing rate_limit_remaining instead
RateLimitHeaders_TestsRemaining(r) ==
    IF Truthy(DictGet(r.ctx, "rate_limit_remaining"))
    THEN SetHeader(SetHeader(SetHeader(r.headers,
            "X-RateLimit-Limit", DictGet(r.ctx, "rate_limit")),
            "X-RateLimit-Remaining", DictGet(r.ctx, "rate_limit_remaining")),
            "X-RateLimit-Reset", DictGet(r.ctx, "rate_limit_reset"))
    ELSE r.headers

\* the three X-RateLimit-* headers, if resp.context.get('rate_limit') is truthy
RateLimitHeaders(r) ==
    IF Truthy(DictGet(r.ctx, "rate_limit"))
    THEN SetHeader(SetHeader(SetHeader(r.headers,
            "X-RateLimit-Limit", DictGet(r.ctx, "rate_limit")),
            "X-RateLimit-Remaining", DictGet(r.ctx, "rate_limit_remaining")),
            "X-RateLimit-Reset", DictGet(r.ctx, "rate_limit_reset"))
    ELSE r.headers

\* process_response as it would be raising when nothing remains
process_response_RaisesAtZero(r, p) ==
    IF ~Truthy(enabled(p.rlc)) THEN [r EXCEPT !.phase = "sent"]
    ELSE IF PyEqInt(DictGet(r.ctx, "rate_limit_remaining"), 0)
    THEN [r EXCEPT !.phase = "sent",
                   !.headers = SetHeader(RateLimitHeaders(r), "Retry-After",
                                         DictGet(r.ctx, "retry_after")),
                   !.status = 429,
                   !.body = PyToStr(DictGet(r.ctx, "rate_limit_description"))]
    ELSE [r EXCEPT !.phase = "sent", !.headers = RateLimitHeaders(r)]

\* process_response: nothing if the provider is not enabled; else the headers, and
\* Retry-After and HTTPTooManyRequests if rate_limit_reached is True
process_response(r, p) ==
    IF ~Truthy(enabled(p.rlc)) THEN [r EXCEPT !.phase = "sent"]
    ELSE IF PyIsTrue(DictGet(r.ctx, "rate_limit_reached"))
    THEN [r EXCEPT !.phase = "sent",
                   !.headers = SetHeader(RateLimitHeaders(r), "Retry-After",
                                         DictGet(r.ctx, "retry_after")),
                   !.status = 429,
                   !.body = PyToStr(DictGet(r.ctx, "rate_limit_description"))]
    ELSE [r EXCEPT !.phase = "sent", !.headers = RateLimitHeaders(r)]

\* the resource's on_get: resp.text = '...-worked', status 200
on_get(r) == [r EXCEPT !.phase = "responded", !.status = 200, !.body = "worked"]

-----------------------------------------------------------------------------
(* The observer: what a client key was sent, counted apart from the store *)

\* the observer counts the requests of a window up to one more than any limit can
\* admit, which is as far as a limit can tell counts apart
ObsCap == (IF MaxLimit > MaxDos THEN MaxLimit ELSE MaxDos) + 2

CountUp(n) == IF n < ObsCap THEN n + 1 ELSE n

NoObs == [qend |-> -1, qn |-> 0, qadm |-> 0, qlast |-> -1, qprev |-> -1, qfull |-> FALSE,
          qpast |-> "none", dsec |-> -1, dn |-> 0, dlast |-> -1, dprev |-> -1]

ObsOf(o, ck) == IF ck \in DOMAIN o THEN o[ck] ELSE NoObs

\* at second t the windows that have ended and the seconds that have passed are
\* forgotten; qpast keeps whether the window that ended last had seen a rejection
ObsAt(e, t) ==
    LET e1 == IF e.qend # -1 /\ t >= e.qend
              THEN [e EXCEPT !.qend = -1, !.qn = 0, !.qadm = 0, !.qlast = -1, !.qprev = -1,
                             !.qfull = FALSE,
                             !.qpast = IF e.qfull THEN "full" ELSE "open"]
              ELSE e
    IN  IF e1.dsec # t
        THEN [e1 EXCEPT !.dsec = -1, !.dn = 0, !.dlast = -1, !.dprev = -1] ELSE e1

\* a request of the client key passed the quota guard at second t, the window being
\* w minutes: it opens a window if none is open, else it is one more of the window;
\* qadm counts the requests admitted in the window, qlast and qprev are the
\* remaining of the last two of them
ObserveQuota(e, t, w, d) ==
    LET e1 == IF e.qend = -1 THEN [e EXCEPT !.qend = t + w * 60, !.qn = 1]
              ELSE [e EXCEPT !.qn = CountUp(@)]
    IN  IF d.reached THEN [e1 EXCEPT !.qfull = TRUE]
        ELSE [e1 EXCEPT !.qadm = CountUp(@), !.qprev = e1.qlast, !.qlast = d.remaining]

\* a request of the client key passed the DoS guard in second t
ObserveDos(e, t, d) ==
    LET e1 == IF e.dsec = -1 THEN [e EXCEPT !.dsec = t, !.dn = 1]
              ELSE [e EXCEPT !.dn = CountUp(@)]
    IN  IF d.reached THEN e1
        ELSE [e1 EXCEPT !.dprev = e1.dlast, !.dlast = d.remaining]

Observe(o, r, t, p) ==
    IF r.phase # "routed" \/ r.ck = "" THEN o
    ELSE LET e0 == ObsAt(ObsOf(o, r.ck), t)
             e1 == IF r.dos_data.set THEN ObserveDos(e0, t, r.dos_data) ELSE e0
             e2 == IF r.rl_data.set
                   THEN ObserveQuota(e1, t, limit_window(p.rlc), r.rl_data) ELSE e1
         IN  (r.ck :> e2) @@ o

-----------------------------------------------------------------------------
(* The application under test: tests/Memcache/app.py and tests/Redis/app.py *)

Slots == {1, 2}

\* no second application
NoTwin == [provider |-> EmptyDict, store |-> EmptyDict, slot |-> IdleSlot]

\* global_rate_limit_control of the test applications
AppGlobalControl ==
    [k \in ControlKeys |->
        CASE k = "enabled" -> PyBool(FALSE)
          [] k = "authenticated_limit" -> PyInt(0)
          [] k = "dos_limit" -> PyInt(0)
          [] k = "global_limit" -> PyBool(TRUE)
          [] k = "limit_window" -> PyInt(1)
          [] k = "unauthenticated_limit" -> PyInt(0)]

\* the resource's rate_limit_control, with the values the tests patch in
ResourceDict(en, a, d, g, w, u) ==
    [k \in ControlKeys |->
        CASE k = "enabled" -> PyBool(en)
          [] k = "authenticated_limit" -> PyInt(a)
          [] k = "dos_limit" -> PyInt(d)
          [] k = "global_limit" -> PyBool(g)
          [] k = "limit_window" -> PyInt(w)
          [] k = "unauthenticated_limit" -> PyInt(u)]

Resource(d) == [has |-> TRUE, isdict |-> TRUE, d |-> d]

\* provider 1 of the test applications: auth_key='user_id', client_key='client_key'
Provider(b, g) ==
    [backend |-> b, global_rlc |-> ProviderInit(g), rlc |-> ProviderInit(g),
     auth_key |-> PyStr("user_id"), client_key |-> PyStr("client_key")]

Request(addr, path, ctx) ==
    [remote_addr |-> addr, access_route |-> <<addr>>, path |-> path, context |-> ctx]

\* a request with a user_id on its context (the tests' 123), and one without
UserRequest(addr, path) == Request(addr, path, [k \in {"user_id"} |-> PyInt(123)])
AnonRequest(addr, path) == Request(addr, path, EmptyDict)

-----------------------------------------------------------------------------
(* Actions *)

\* the middleware's process_resource for request q in slot s
ProcessResource(s, q, failAt, frac) ==
    /\ slots[s].phase \in {"idle", "sent"}
    /\ LET n == Run(NewSlot(q, failAt, frac), store, now, provider)
       IN  /\ slots' = [slots EXCEPT ![s] = n.r]
           /\ store' = n.st
           /\ provider' = n.p
           /\ obs' = Observe(obs, n.r, now, n.p)
    /\ UNCHANGED <<now, routeCtl, twin>>

\* the responder runs unless process_resource set resp.complete
Responder(s) ==
    /\ slots[s].phase = "routed"
    /\ ~slots[s].complete
    /\ slots' = [slots EXCEPT ![s] = on_get(@)]
    /\ UNCHANGED <<now, store, provider, routeCtl, obs, twin>>

\* the middleware's process_response for the request in slot s; the framework calls
\* it after the responder, after a short-circuit and after an exception alike
ProcessResponse(s) ==
    /\ \/ slots[s].phase \in {"responded", "raised"}
       \/ slots[s].phase = "routed" /\ slots[s].complete
    /\ slots' = [slots EXCEPT ![s] = process_response(@, provider)]
    /\ UNCHANGED <<now, store, provider, routeCtl, obs, twin>>

\* the clock advances to second t; what has expired is gone from the store, and the
\* responses that were sent are gone from the process
Tick(t) ==
    /\ t > now
    /\ now' = t
    /\ store' = Live(store, t)
    /\ slots' = [s \in Slots |-> IF slots[s].phase = "sent" THEN IdleSlot ELSE slots[s]]
    /\ obs' = [k \in {x \in DOMAIN obs : ObsAt(obs[x], t) # NoObs} |-> ObsAt(obs[k], t)]
    /\ UNCHANGED <<provider, routeCtl, twin>>

NoRequestInFlight == \A s \in Slots : slots[s].phase \in {"idle", "sent"}

-----------------------------------------------------------------------------
(* Spec: one application, its requests handled one after another *)

Paths == {"/middleware"}

\* one client address, which sends requests with and without a user_id; the
\* application limits one of the two kinds (forUsers) and leaves the other unlimited
SeqRequests ==
    {UserRequest("127.0.0.1", pa) : pa \in Paths}
        \cup {AnonRequest("127.0.0.1", pa) : pa \in Paths}

\* limit_window * 60 for the applications' limit_window of 1 minute
WindowSeconds == 60

\* the seconds at which requests arrive: the first seconds of a window opened at 0,
\* its last second and the seconds after it
Instants == (0..Burst) \cup {WindowSeconds - 1 + i : i \in 0..Burst}

InitCommon ==
    /\ now = 0
    /\ store = [k \in {} |-> [val |-> 0, exp |-> 0]]
    /\ slots = [s \in Slots |-> IdleSlot]
    /\ obs = [k \in {} |-> NoObs]
    /\ twin = NoTwin

\* the resource's control as the tests patch it: a limit l for requests with a
\* user_id under global_limit True (test_authenticated_rate_limit), or for requests
\* without one under global_limit False (test_unauthenticated_rate_limit), and a
\* dos_limit d (test_dos_limit); 0 is no limit
Init ==
    /\ InitCommon
    /\ \E b \in {"memcache", "redis"} : provider = Provider(b, AppGlobalControl)
    /\ \E en \in BOOLEAN, l \in 0..MaxLimit, d \in 0..MaxDos, forUsers \in BOOLEAN :
          routeCtl = [pa \in Paths |->
                        Resource(ResourceDict(en, IF forUsers THEN l ELSE 0, d, forUsers,
                                              1, IF forUsers THEN 0 ELSE l))]

SeqProcessResource == \E q \in SeqRequests : ProcessResource(1, q, 0, 0)

SeqResponder == Responder(1)

SeqProcessResponse == ProcessResponse(1)

SeqTick == \E t \in Instants : NoRequestInFlight /\ Tick(t)

Next == SeqProcessResource \/ SeqResponder \/ SeqProcessResponse \/ SeqTick

Spec == Init /\ [][Next]_vars

-----------------------------------------------------------------------------
(* SpecFail: the same application, with store calls that fail *)

FailRequests == {AnonRequest("127.0.0.1", pa) : pa \in Paths}

\* the resource limits requests without a user_id to l, and to d a second, each
\* guard being off (0) or at its largest limit
InitFail ==
    /\ InitCommon
    /\ \E b \in {"memcache", "redis"} : provider = Provider(b, AppGlobalControl)
    /\ \E l \in {0, MaxLimit}, d \in {0, MaxDos} :
          routeCtl = [pa \in Paths |-> Resource(ResourceDict(TRUE, 0, d, FALSE, 1, l))]

\* the failAt-th store call of the request raises (0: none does); a request that
\* makes fewer calls than that has no call to fail
FailProcessResource ==
    \E q \in FailRequests, failAt \in 0..MaxCalls :
        /\ failAt <= Len(Run(NewSlot(q, failAt, 0), store, now, provider).r.calls)
        /\ ProcessResource(1, q, failAt, 0)

\* the seconds of one window
FailTick == \E t \in 1..Burst : NoRequestInFlight /\ Tick(t)

NextFail == FailProcessResource \/ SeqResponder \/ SeqProcessResponse \/ FailTick

SpecFail == InitFail /\ [][NextFail]_vars

-----------------------------------------------------------------------------
(* SpecConc: two routes with different overrides, two requests in flight whose *)
(* hooks interleave                                                            *)

ConcPaths == {"/middleware", "/status"}

ConcRequests == {AnonRequest("127.0.0.1", pa) : pa \in ConcPaths}

\* '/middleware' limits requests without a user_id to l; '/status' has its own
\* override: limiting off (l2 = 0), or another limit l2
InitConc ==
    /\ InitCommon
    /\ \E b \in {"memcache", "redis"} : provider = Provider(b, AppGlobalControl)
    /\ \E l \in 1..MaxLimit, l2 \in 0..MaxLimit :
          routeCtl = [pa \in ConcPaths |->
                        IF pa = "/middleware"
                        THEN Resource(ResourceDict(TRUE, 0, 0, FALSE, 1, l))
                        ELSE Resource(ResourceDict(l2 # 0, 0, 0, FALSE, 1, l2))]

ConcProcessResource == \E s \in Slots, q \in ConcRequests : ProcessResource(s, q, 0, 0)

ConcResponder == \E s \in Slots : Responder(s)

ConcProcessResponse == \E s \in Slots : ProcessResponse(s)

NextConc == ConcProcessResource \/ ConcResponder \/ ConcProcessResponse

SpecConc == InitConc /\ [][NextConc]_vars

-----------------------------------------------------------------------------
(* SpecPolicy: the control dicts a provider and a resource may be given *)

\* a key the dict is not given
Absent == [t |-> "absent", v |-> 0, s |-> ""]

\* a control dict with the keys that are given
Given(en, a, d, u) ==
    LET all == [enabled |-> en, authenticated_limit |-> a, dos_limit |-> d,
                unauthenticated_limit |-> u]
    IN  [k \in {x \in DOMAIN all : all[x] # Absent} |-> all[k]]

PolicyFlags == {Absent, PyNone, PyBool(TRUE), PyBool(FALSE)}
PolicyLimits == {Absent, PyNone, PyInt(0), PyInt(MaxLimit)}

\* the provider is given enabled and at most one limit, the resource any of them
InitPolicy ==
    /\ InitCommon
    /\ \E b \in {"memcache", "redis"}, en \in {Absent, PyBool(TRUE), PyBool(FALSE)},
          k \in {"", "authenticated_limit", "dos_limit", "unauthenticated_limit"} :
          provider = Provider(b, Given(en,
                        IF k = "authenticated_limit" THEN PyInt(MaxLimit) ELSE Absent,
                        IF k = "dos_limit" THEN PyInt(MaxLimit) ELSE Absent,
                        IF k = "unauthenticated_limit" THEN PyInt(MaxLimit) ELSE Absent))
    /\ \E en \in PolicyFlags, a \in PolicyLimits, d \in PolicyLimits, u \in PolicyLimits :
          routeCtl = [pa \in Paths |-> Resource(Given(en, a, d, u))]

NextPolicy == SeqProcessResource \/ SeqResponder \/ SeqProcessResponse

SpecPolicy == InitPolicy /\ [][NextPolicy]_vars

-----------------------------------------------------------------------------
(* SpecKey: the requests a provider may see and the attribute names it may be *)
(* given; a request is handled, and then once more                            *)

ProviderWith(b, g, ak, ck) ==
    [Provider(b, g) EXCEPT !.auth_key = ak, !.client_key = ck]

\* the forwarded chains: none, an empty first entry, one address, two addresses
AccessRoutes == {<<>>, <<"">>, <<"10.0.0.1">>, <<"10.0.0.1", "10.0.0.2">>}

\* req.context.client_key and req.context.user_id: Absent, or a value
KeyAttributes == {Absent, PyNone, PyStr(""), PyStr("abc"), PyInt(123)}
AuthAttributes ==
    {Absent, PyNone, PyBool(FALSE), PyBool(TRUE), PyStr(""), PyInt(0), PyInt(123)}

Context(ck, uid) ==
    LET all == [client_key |-> ck, user_id |-> uid]
    IN  [k \in {x \in DOMAIN all : all[x] # Absent} |-> all[k]]

KeyRequests ==
    {[remote_addr |-> "10.0.0.9", access_route |-> ar, path |-> pa,
      context |-> Context(ck, uid)] :
        ar \in AccessRoutes, pa \in Paths, ck \in KeyAttributes, uid \in AuthAttributes}

\* the resource limits requests with a user_id to MaxLimit and the others to 1
InitKey ==
    /\ InitCommon
    /\ \E b \in {"memcache", "redis"}, ak \in {PyNone, PyStr("user_id")},
          ck \in {PyNone, PyStr(""), PyStr("client_key")} :
          provider = ProviderWith(b, AppGlobalControl, ak, ck)
    /\ \E g \in BOOLEAN :
          routeCtl = [pa \in Paths |-> Resource(ResourceDict(TRUE, MaxLimit, 0, g, 1, 1))]

KeyProcessResource ==
    \E q \in KeyRequests : slots[1].phase = "idle" /\ ProcessResource(1, q, 0, 0)

\* the same request once more, after the first has been answered
KeyRepeat ==
    /\ slots[1].phase = "sent"
    /\ slots[2].phase = "idle"
    /\ ProcessResource(2, slots[1].req, 0, 0)

NextKey == KeyProcessResource \/ KeyRepeat \/ ConcResponder \/ ConcProcessResponse

SpecKey == InitKey /\ [][NextKey]_vars

-----------------------------------------------------------------------------
(* SpecRoutes: two clients and two routes under one control, global_limit on *)
(* or off, their requests handled one after another                          *)

\* one client sends to both routes, another to one of them
RoutesRequests ==
    {AnonRequest("10.0.0.1", "/middleware"), AnonRequest("10.0.0.1", "/status"),
     AnonRequest("10.0.0.2", "/middleware")}

InitRoutes ==
    /\ InitCommon
    /\ \E b \in {"memcache", "redis"} : provider = Provider(b, AppGlobalControl)
    /\ \E g \in BOOLEAN, l \in {1, MaxLimit} :
          routeCtl = [pa \in ConcPaths |-> Resource(ResourceDict(TRUE, 0, 0, g, 1, l))]

\* the seconds of one window
RoutesTick == \E t \in 1..Burst : NoRequestInFlight /\ Tick(t)

RoutesProcessResource == \E q \in RoutesRequests : ProcessResource(1, q, 0, 0)

NextRoutes == RoutesProcessResource \/ SeqResponder \/ SeqProcessResponse \/ RoutesTick

SpecRoutes == InitRoutes /\ [][NextRoutes]_vars

-----------------------------------------------------------------------------
(* SpecMalformed: the resource's control has a limit that is not a number *)

\* the resource's control with the limit k replaced by a string
MalformedLimits ==
    {[ResourceDict(TRUE, l, d, TRUE, 1, l) EXCEPT ![k] = PyStr("many")] :
        l \in 0..MaxLimit, d \in 0..MaxDos,
        k \in {"authenticated_limit", "dos_limit", "unauthenticated_limit"}}

InitMalformed ==
    /\ InitCommon
    /\ \E b \in {"memcache", "redis"} : provider = Provider(b, AppGlobalControl)
    /\ \E m \in MalformedLimits : routeCtl = [pa \in Paths |-> Resource(m)]

NextMalformed == SeqProcessResource \/ SeqResponder \/ SeqProcessResponse \/ RoutesTick

SpecMalformed == InitMalformed /\ [][NextMalformed]_vars

-----------------------------------------------------------------------------
(* SpecRace: two requests of one client in flight, process_resource taking one *)
(* store call at a time                                                        *)

InitRace ==
    /\ InitCommon
    /\ \E b \in {"memcache", "redis"} : provider = Provider(b, AppGlobalControl)
    /\ \E l \in 1..MaxLimit :
          routeCtl = [pa \in Paths |-> Resource(ResourceDict(TRUE, 0, 0, TRUE, 1, l))]

\* process_resource is entered for request q
RaceStart(s, q) ==
    /\ slots[s].phase \in {"idle", "sent"}
    /\ slots' = [slots EXCEPT ![s] = NewSlot(q, 0, 0)]
    /\ UNCHANGED <<now, store, provider, routeCtl, obs, twin>>

\* process_resource goes on to its next store call, or to its end
RaceStep(s) ==
    /\ slots[s].phase = "resource"
    /\ LET n == Step(slots[s], store, now, provider)
       IN  /\ slots' = [slots EXCEPT ![s] = n.r]
           /\ store' = n.st
           /\ provider' = n.p
           /\ obs' = Observe(obs, n.r, now, n.p)
    /\ UNCHANGED <<now, routeCtl, twin>>

RaceProcessResource == \E s \in Slots, q \in FailRequests : RaceStart(s, q)

RaceContinue == \E s \in Slots : RaceStep(s)

NextRace == RaceProcessResource \/ RaceContinue \/ ConcResponder \/ ConcProcessResponse

SpecRace == InitRace /\ [][NextRace]_vars

-----------------------------------------------------------------------------
(* SpecClock: requests handled one after another, process_resource taking one *)
(* store call at a time while the clock advances and keys expire between its  *)
(* calls                                                                      *)

InitClock ==
    /\ InitCommon
    /\ \E b \in {"memcache", "redis"} : provider = Provider(b, AppGlobalControl)
    /\ \E l \in 0..MaxLimit, d \in 0..MaxDos :
          routeCtl = [pa \in Paths |-> Resource(ResourceDict(TRUE, 0, d, TRUE, 1, l))]

ClockProcessResource == \E q \in FailRequests : RaceStart(1, q)

ClockContinue == RaceStep(1)

\* the clock advances, whether a request is being handled or not
ClockTick == \E t \in Instants : Tick(t)

NextClock ==
    ClockProcessResource \/ ClockContinue \/ SeqResponder \/ SeqProcessResponse
        \/ ClockTick

SpecClock == InitClock /\ [][NextClock]_vars

-----------------------------------------------------------------------------
(* SpecMixed: one client whose requests come with and without a user_id, to  *)
(* two routes with limits of their own under global_limit true: one counter  *)
(* is counted against several limits                                         *)

MixedRequests ==
    {UserRequest("127.0.0.1", "/middleware"), AnonRequest("127.0.0.1", "/middleware"),
     AnonRequest("127.0.0.1", "/status")}

\* '/middleware' limits requests with a user_id to a and the others to u;
\* '/status' limits requests to u2 and to d in a second
InitMixed ==
    /\ InitCommon
    /\ \E b \in {"memcache", "redis"} : provider = Provider(b, AppGlobalControl)
    /\ \E a \in 1..MaxLimit, u \in 1..MaxLimit, u2 \in 1..MaxLimit, d \in 0..MaxDos :
          routeCtl = [pa \in ConcPaths |->
                        IF pa = "/middleware"
                        THEN Resource(ResourceDict(TRUE, a, MaxDos, TRUE, 1, u))
                        ELSE Resource(ResourceDict(TRUE, 0, d, TRUE, 1, u2))]

MixedProcessResource == \E q \in MixedRequests : ProcessResource(1, q, 0, 0)

NextMixed == MixedProcessResource \/ SeqResponder \/ SeqProcessResponse \/ RoutesTick

SpecMixed == InitMixed /\ [][NextMixed]_vars

-----------------------------------------------------------------------------
(* SpecPair: the application on memcached and the same application on Redis, *)
(* given the same requests at the same seconds, one after another            *)

\* both applications are constructed alike but for the provider class, and their
\* resource is patched as in Init
InitPair ==
    /\ now = 0
    /\ store = [k \in {} |-> [val |-> 0, exp |-> 0]]
    /\ slots = [s \in Slots |-> IdleSlot]
    /\ obs = [k \in {} |-> NoObs]
    /\ provider = Provider("memcache", AppGlobalControl)
    /\ twin = [provider |-> Provider("redis", AppGlobalControl),
               store |-> [k \in {} |-> [val |-> 0, exp |-> 0]],
               slot |-> IdleSlot]
    /\ \E l \in 0..MaxLimit, d \in 0..MaxDos, forUsers \in BOOLEAN :
          routeCtl = [pa \in Paths |->
                        Resource(ResourceDict(TRUE, IF forUsers THEN l ELSE 0, d, forUsers,
                                              1, IF forUsers THEN 0 ELSE l))]

\* process_resource of both applications for request q
PairProcessResource ==
    \E q \in SeqRequests :
        /\ slots[1].phase \in {"idle", "sent"}
        /\ twin.slot.phase \in {"idle", "sent"}
        /\ LET n == Run(NewSlot(q, 0, 0), store, now, provider)
               m == Run(NewSlot(q, 0, 0), twin.store, now, twin.provider)
           IN  /\ slots' = [slots EXCEPT ![1] = n.r]
               /\ store' = n.st
               /\ provider' = n.p
               /\ obs' = Observe(obs, n.r, now, n.p)
               /\ twin' = [provider |-> m.p, store |-> m.st, slot |-> m.r]
        /\ UNCHANGED <<now, routeCtl>>

\* the responder of each application runs unless its process_resource set
\* resp.complete
PairResponder ==
    /\ slots[1].phase = "routed"
    /\ twin.slot.phase = "routed"
    /\ ~slots[1].complete \/ ~twin.slot.complete
    /\ slots' = [slots EXCEPT ![1] = IF @.complete THEN @ ELSE on_get(@)]
    /\ twin' = [twin EXCEPT !.slot = IF @.complete THEN @ ELSE on_get(@)]
    /\ UNCHANGED <<now, store, provider, routeCtl, obs>>

\* the request in r is ready for process_response
Answerable(r) == r.phase \in {"responded", "raised"} \/ (r.phase = "routed" /\ r.complete)

\* process_response of both applications
PairProcessResponse ==
    /\ Answerable(slots[1])
    /\ Answerable(twin.slot)
    /\ slots' = [slots EXCEPT ![1] = process_response(@, provider)]
    /\ twin' = [twin EXCEPT !.slot = process_response(@, twin.provider)]
    /\ UNCHANGED <<now, store, provider, routeCtl, obs>>

\* the clock of both advances to second t
PairTick ==
    \E t \in Instants :
        /\ NoRequestInFlight
        /\ twin.slot.phase \in {"idle", "sent"}
        /\ t > now
        /\ now' = t
        /\ store' = Live(store, t)
        /\ slots' = [s \in Slots |-> IF slots[s].phase = "sent" THEN IdleSlot ELSE slots[s]]
        /\ obs' = [k \in {x \in DOMAIN obs : ObsAt(obs[x], t) # NoObs} |-> ObsAt(obs[k], t)]
        /\ twin' = [twin EXCEPT !.store = Live(@, t), !.slot = IdleSlot]
        /\ UNCHANGED <<provider, routeCtl>>

NextPair == PairProcessResource \/ PairResponder \/ PairProcessResponse \/ PairTick

SpecPair == InitPair /\ [][NextPair]_vars

-----------------------------------------------------------------------------
(* SpecWindow: the provider is given no limit_window and the resource's control *)
(* has one, or None, or none                                                    *)

\* limit_window as a resource may have it: not given, None, 0, or minutes
WindowValues == {Absent, PyNone, PyInt(0), PyInt(1), PyInt(2)}

\* a control that limits requests without a user_id to l, with limit_window w
WindowControl(w, l) ==
    LET all == [enabled |-> PyBool(TRUE), unauthenticated_limit |-> PyInt(l),
                limit_window |-> w]
    IN  [k \in {x \in DOMAIN all : all[x] # Absent} |-> all[k]]

InitWindow ==
    /\ InitCommon
    /\ \E b \in {"memcache", "redis"} : provider = Provider(b, EmptyDict)
    /\ \E w \in WindowValues, l \in 1..MaxLimit :
          routeCtl = [pa \in Paths |-> Resource(WindowControl(w, l))]

WindowProcessResource == \E q \in FailRequests : ProcessResource(1, q, 0, 0)

NextWindow == WindowProcessResource \/ SeqResponder \/ SeqProcessResponse \/ RoutesTick

SpecWindow == InitWindow /\ [][NextWindow]_vars

-----------------------------------------------------------------------------
(* SpecOverride: two routes whose resources differ in what rate_limit_control *)
(* they have, their requests handled one after another                        *)

\* a resource without the attribute, and one whose attribute is not a dict
NoControl == [has |-> FALSE, isdict |-> FALSE, d |-> EmptyDict]
NotADict == [has |-> TRUE, isdict |-> FALSE, d |-> EmptyDict]

\* the provider's argument: the test applications' dict, or one that limits
\* requests without a user_id and leaves the other keys to the defaults
OverrideGlobals ==
    {AppGlobalControl, Given(PyBool(TRUE), Absent, Absent, PyInt(MaxLimit))}

\* what '/status' may have: nothing, no dict, an empty dict, limiting switched
\* off, or a dos_limit of its own
StatusResources ==
    {NoControl, NotADict, Resource(EmptyDict),
     Resource(Given(PyBool(FALSE), Absent, Absent, Absent)),
     Resource(Given(PyBool(TRUE), Absent, PyInt(MaxDos), Absent))}

InitOverride ==
    /\ InitCommon
    /\ \E b \in {"memcache", "redis"}, g \in OverrideGlobals : provider = Provider(b, g)
    /\ \E l \in 1..MaxLimit, res \in StatusResources :
          routeCtl = [pa \in ConcPaths |->
                        IF pa = "/middleware"
                        THEN Resource(ResourceDict(TRUE, 0, 0, TRUE, 1, l))
                        ELSE res]

OverrideProcessResource == \E q \in ConcRequests : ProcessResource(1, q, 0, 0)

NextOverride ==
    OverrideProcessResource \/ SeqResponder \/ SeqProcessResponse \/ RoutesTick

SpecOverride == InitOverride /\ [][NextOverride]_vars

-----------------------------------------------------------------------------
(* What the claims are stated over *)

\* the requests whose process_resource has returned
Decided == {s \in Slots : slots[s].phase \in {"routed", "responded", "sent"}}

\* the requests the quota guard, resp. the DoS guard, decided
QuotaDecided == {s \in Decided : slots[s].rl_data.set}
DosDecided == {s \in Decided : slots[s].dos_data.set}

\* what the observer holds for the request's client key
Seen(s) == ObsOf(obs, slots[s].ck)

\* the control the request's own route resolves to
OwnControl(s) ==
    DictUpdate(provider.global_rlc, ResourceControl(routeCtl[slots[s].req.path]))

-----------------------------------------------------------------------------
(* C1: quota guard, requests handled one after another: of the requests of one     *)
(* client key within one window exactly the first `limit` are admitted and the    *)
(* (limit+1)-th and every later one is rejected.                                  *)
C1_QuotaAdmitsExactlyLimit ==
    \A s \in QuotaDecided :
        slots[s].rl_data.reached <=> Seen(s).qn > Num(slots[s].lim)

\* the (limit+1)-th request of a window has been rejected
C1_Witness ==
    \E s \in QuotaDecided :
        /\ slots[s].rl_data.reached
        /\ Seen(s).qn = Num(slots[s].lim) + 1

-----------------------------------------------------------------------------
(* C2: once the window's TTL (limit_window * 60 seconds from the request that   *)
(* opened it) has elapsed, the next request of the client opens a new window: it *)
(* is admitted with remaining = limit - 1, whatever was admitted or rejected     *)
(* before.                                                                       *)
C2_NewWindowAfterTtl ==
    \A s \in QuotaDecided :
        Seen(s).qn = 1 =>
            /\ ~slots[s].rl_data.reached
            /\ slots[s].rl_data.remaining = Num(slots[s].lim) - 1

\* a request has opened a window after a window that had rejected requests ended
C2_Witness ==
    \E s \in QuotaDecided :
        /\ Seen(s).qn = 1
        /\ Seen(s).qpast = "full"
        /\ now >= WindowSeconds
        /\ ~slots[s].rl_data.reached

-----------------------------------------------------------------------------
(* C3: DoS guard, requests handled one after another within one unix second:     *)
(* exactly the first dos_limit requests of a client are admitted, with remaining *)
(* dos_limit - 1 down to 0, and every further one is rejected with remaining 0.  *)
C3_DosAdmitsExactlyLimit ==
    \A s \in DosDecided :
        LET d == Num(DictGet(OwnControl(s), "dos_limit"))
            n == Seen(s).dn
        IN  IF n <= d
            THEN ~slots[s].dos_data.reached /\ slots[s].dos_data.remaining = d - n
            ELSE slots[s].dos_data.reached /\ slots[s].dos_data.remaining = 0

\* the request after the dos_limit-th of a second has been rejected
C3_Witness ==
    \E s \in DosDecided :
        /\ slots[s].dos_data.reached
        /\ Seen(s).dn = Num(DictGet(OwnControl(s), "dos_limit")) + 1

-----------------------------------------------------------------------------
(* C4: a request is short-circuited by process_resource and answered 429 with    *)
(* the stamped description by process_response exactly if the recorded decision  *)
(* is reached; the description names the DoS limit when the DoS guard rejected   *)
(* and the quota limit and window when the quota guard rejected.                 *)

ReachedRecorded(s) == PyIsTrue(DictGet(slots[s].ctx, "rate_limit_reached"))

ExpectedDescription(s) ==
    IF slots[s].dos_data.reached
    THEN "Client exceeded rate limit of "
            \o ToString(Num(DictGet(OwnControl(s), "dos_limit")))
            \o " requests per seconds."
    ELSE "Client exceeded rate limit of " \o ToString(Num(slots[s].lim))
            \o " requests per "
            \o ToString(Num(DictGet(OwnControl(s), "limit_window"))) \o " minutes."

C4_RejectedIffReached ==
    \A s \in Decided :
        /\ ReachedRecorded(s) <=> (slots[s].dos_data.reached \/ slots[s].rl_data.reached)
        /\ slots[s].complete <=> ReachedRecorded(s)
        /\ ReachedRecorded(s) =>
              DictGet(slots[s].ctx, "rate_limit_description") = PyStr(ExpectedDescription(s))
        /\ slots[s].phase = "sent" =>
              /\ slots[s].status = 429 <=> ReachedRecorded(s)
              /\ slots[s].status = 429 => slots[s].body = ExpectedDescription(s)
              /\ slots[s].status # 429 => slots[s].status = 200 /\ slots[s].body = "worked"

\* a request the DoS guard rejected has been answered 429
C4_Witness ==
    \E s \in Decided :
        /\ slots[s].phase = "sent"
        /\ slots[s].dos_data.reached
        /\ slots[s].status = 429

-----------------------------------------------------------------------------
(* C5: when limiting is enabled and a guard ran, the response carries the three  *)
(* X-RateLimit headers with the values of the recorded decision, admitted or     *)
(* 429; else it carries none of them.                                            *)

RateHeaderNames == {"X-RateLimit-Limit", "X-RateLimit-Remaining", "X-RateLimit-Reset"}

\* the decision recorded last: the quota guard's if it ran, else the DoS guard's
LastLimit(s) ==
    IF slots[s].rl_data.set THEN Num(slots[s].lim)
    ELSE Num(DictGet(OwnControl(s), "dos_limit"))
LastData(s) == IF slots[s].rl_data.set THEN slots[s].rl_data ELSE slots[s].dos_data

C5_HeadersIffGuardRan ==
    \A s \in Slots :
        slots[s].phase = "sent" /\ slots[s].err = "" =>
            IF Truthy(enabled(OwnControl(s)))
                  /\ (slots[s].dos_data.set \/ slots[s].rl_data.set)
            THEN /\ RateHeaderNames \subseteq DOMAIN slots[s].headers
                 /\ slots[s].headers["X-RateLimit-Limit"] = ToString(LastLimit(s))
                 /\ slots[s].headers["X-RateLimit-Remaining"]
                        = ToString(LastData(s).remaining)
                 /\ slots[s].headers["X-RateLimit-Reset"] = ToString(LastData(s).reset)
            ELSE RateHeaderNames \cap DOMAIN slots[s].headers = {}

\* an admitted response with nothing remaining carries the headers
C5_Witness ==
    \E s \in Slots :
        /\ slots[s].phase = "sent"
        /\ slots[s].status = 200
        /\ RateHeaderNames \subseteq DOMAIN slots[s].headers
        /\ slots[s].headers["X-RateLimit-Remaining"] = "0"

-----------------------------------------------------------------------------
(* C6: the DoS guard runs first and the quota guard only if the DoS guard did    *)
(* not reject: a request the DoS guard rejected makes no store call on the       *)
(* client's quota counter or its '-expires' key, and a request the DoS guard     *)
(* admitted goes through the quota guard if a limit applies.                     *)

QuotaKeys(s) == {slots[s].ck, ExpiresKey(slots[s].ck)}

C6_DosFirstQuotaOnlyIfAdmitted ==
    \A s \in Decided :
        LET r == slots[s] IN
        /\ r.dos_data.reached =>
              /\ ~r.rl_data.set
              /\ \A i \in 1..Len(r.calls) : r.calls[i][2] \notin QuotaKeys(s)
        /\ r.dos_data.set /\ ~r.dos_data.reached /\ ~PyEqInt(r.lim, 0) => r.rl_data.set
        /\ \A i, j \in 1..Len(r.calls) :
              i < j /\ r.calls[i][2] \in QuotaKeys(s) => r.calls[j][2] \in QuotaKeys(s)

\* the DoS guard rejected a request to which a quota limit applies
C6_Witness ==
    \E s \in Decided :
        /\ slots[s].dos_data.reached
        /\ ~PyEqInt(slots[s].lim, 0)

\* a request the DoS guard admitted was rejected by the quota guard
C6_WitnessQuotaRejects ==
    \E s \in Decided :
        /\ slots[s].dos_data.set /\ ~slots[s].dos_data.reached
        /\ slots[s].rl_data.reached

-----------------------------------------------------------------------------
(* C7: if a store call made while deciding a request fails, the failure leaves   *)
(* process_resource as an error: the request is not recorded as admitted on the  *)
(* basis of the failed call, nothing is done after it, and a failed read is not  *)
(* taken for a count of 0.                                                       *)

\* the requests one of whose store calls failed
StoreFailed == {s \in Slots : slots[s].phase # "idle" /\ slots[s].failAt > 0}

\* the keys of the DoS guard's calls of the request
DosKeys(s) == {DosKey(slots[s].ck, t) : t \in 0..now}

C7_StoreFailurePropagates ==
    \A s \in StoreFailed :
        LET r == slots[s] IN
        /\ r.err = "StoreUnavailable"
        /\ r.phase \in {"raised", "sent"}
        /\ r.status = 500 /\ r.body = ""
        /\ ~r.complete
        /\ Len(r.calls) = r.failAt
        /\ "retry_after" \notin DOMAIN r.ctx
        /\ r.calls[r.failAt][2] \in DosKeys(s) => r.ctx = EmptyDict
        /\ r.calls[r.failAt][2] \in QuotaKeys(s) =>
              IF r.dos_data.set
              THEN /\ ~r.dos_data.reached
                   /\ DictGet(r.ctx, "rate_limit_remaining") = PyInt(r.dos_data.remaining)
              ELSE r.ctx = EmptyDict

\* the read of the quota counter failed for a request the DoS guard had admitted
C7_Witness ==
    \E s \in StoreFailed :
        /\ slots[s].err = "StoreUnavailable"
        /\ slots[s].calls[slots[s].failAt] = <<"get", slots[s].ck>>
        /\ slots[s].dos_data.set
        /\ slots[s].phase = "sent"

-----------------------------------------------------------------------------
(* C8: requests to routes with different overrides are in flight together and    *)
(* their hooks interleave: each request's enabled flag, limit, decision, headers *)
(* and 429 outcome are those of its own route's control, never another           *)
(* request's.                                                                    *)
C8_OwnPolicyOnly ==
    \A s \in Slots :
        LET r == slots[s]
            own == OwnControl(s)
        IN  r.phase = "sent" =>
               /\ (r.ck # "") <=> Truthy(enabled(own))
               /\ r.rl_data.set => r.lim = limit([provider EXCEPT !.rlc = own], r.req)
               /\ r.status = 429 <=> ReachedRecorded(s)
               /\ RateHeaderNames \subseteq DOMAIN r.headers
                     <=> Truthy(enabled(own)) /\ (r.dos_data.set \/ r.rl_data.set)

-----------------------------------------------------------------------------
(* C9: over the admitted requests of one client within one window (constant      *)
(* limit, handled one after another) remaining never increases, and a decision   *)
(* that is not reached has remaining >= 0.                                       *)
C9_RemainingMonotone ==
    /\ \A s \in QuotaDecided :
          /\ ~slots[s].rl_data.reached => slots[s].rl_data.remaining >= 0
          /\ Seen(s).qprev # -1 => Seen(s).qlast <= Seen(s).qprev
    /\ \A s \in DosDecided :
          /\ ~slots[s].dos_data.reached => slots[s].dos_data.remaining >= 0
          /\ Seen(s).dprev # -1 => Seen(s).dlast <= Seen(s).dprev

\* two requests have been admitted in one window, the second with less remaining
C9_Witness ==
    \E s \in QuotaDecided :
        /\ ~slots[s].rl_data.reached
        /\ Seen(s).qprev # -1
        /\ Seen(s).qlast = slots[s].rl_data.remaining
        /\ Seen(s).qlast < Seen(s).qprev

-----------------------------------------------------------------------------
(* C11: when the resolved control has enabled false both hooks do nothing:       *)
(* process_resource makes no store call and records nothing on resp.context,     *)
(* process_response sets no header and raises no 429; the store and the response *)
(* are as they were.                                                             *)

\* the step is process_resource, resp. process_response, of the request in slot s
ResourceStep(s) == slots[s].phase \in {"idle", "sent"} /\ slots'[s].phase = "routed"
ResponseStep(s) == slots[s].phase \in {"routed", "responded"} /\ slots'[s].phase = "sent"

C11_DisabledIsNoOp ==
    [][\A s \in Slots :
          /\ ResourceStep(s) /\ ~Truthy(enabled(OwnControl(s)'))  =>
                /\ store' = store
                /\ slots'[s].calls = <<>>
                /\ slots'[s].ctx = EmptyDict
                /\ ~slots'[s].complete
                /\ slots'[s].headers = EmptyDict /\ slots'[s].status = 200
          /\ ResponseStep(s) /\ ~Truthy(enabled(OwnControl(s))) =>
                /\ store' = store
                /\ slots'[s] = [slots[s] EXCEPT !.phase = "sent"]
                /\ slots'[s].headers = EmptyDict
                /\ slots'[s].status = 200 /\ slots'[s].body = "worked"]_vars

\* a request to a route whose control is not enabled has been answered while the
\* store holds a counter, and the provider's argument sets a limit
C11_Witness ==
    \E s \in Slots :
        /\ slots[s].phase = "sent"
        /\ ~Truthy(enabled(OwnControl(s)))
        /\ ~PyEqInt(unauthenticated_limit(provider.global_rlc), 0)
        /\ slots[s].body = "worked"
        /\ DOMAIN store # {}

-----------------------------------------------------------------------------
(* C12: the control resolved for a request is the provider's global control with *)
(* the route's override applied key by key; it depends on these two alone: an    *)
(* override applied for an earlier request does not persist, the global control  *)
(* is never modified, and a route whose rate_limit_control is missing or not a   *)
(* dict gets the global control.                                                 *)

\* the route's override: its rate_limit_control if it is a dict, else nothing
OverrideOf(pa) ==
    IF routeCtl[pa].has /\ routeCtl[pa].isdict THEN routeCtl[pa].d ELSE EmptyDict

C12_OverridePerKey ==
    [][/\ provider'.global_rlc = provider.global_rlc
       /\ \A s \in Slots :
             ResourceStep(s) =>
                LET over == OverrideOf(slots'[s].req.path) IN
                /\ DOMAIN provider'.rlc = ControlKeys
                /\ \A k \in ControlKeys :
                      provider'.rlc[k] = IF k \in DOMAIN over THEN over[k]
                                         ELSE provider.global_rlc[k]]_vars

\* after a request to '/middleware' (whose counter expires with its window of one
\* minute), a request to a route without a dict has been given the global control,
\* which differs from the control of the request before
C12_Witness ==
    \E s \in Slots :
        /\ slots[s].phase = "routed"
        /\ slots[s].req.path = "/status"
        /\ ~(routeCtl["/status"].has /\ routeCtl["/status"].isdict)
        /\ provider.rlc = provider.global_rlc
        /\ provider.rlc # DictUpdate(provider.global_rlc, routeCtl["/middleware"].d)
        /\ \E k \in DOMAIN store : store[k].exp \in 1..(Burst + WindowSeconds)

-----------------------------------------------------------------------------
(* C13: every rejected request is answered with a Retry-After header: for a      *)
(* rejection by the quota guard its value is reset - now, between 0 and          *)
(* limit_window * 60 seconds; for a rejection by the DoS guard it is 1.          *)
C13_RetryAfterOnRejection ==
    \A s \in Slots :
        slots[s].phase = "sent" /\ slots[s].status = 429 =>
            /\ "Retry-After" \in DOMAIN slots[s].headers
            /\ IF slots[s].dos_data.reached
               THEN slots[s].headers["Retry-After"] = "1"
               ELSE /\ slots[s].headers["Retry-After"]
                          = ToString(slots[s].rl_data.reset - now)
                    /\ slots[s].rl_data.reset - now
                          \in 0..(limit_window(OwnControl(s)) * 60)

-----------------------------------------------------------------------------
(* C14: the guards are independent.  With dos_limit = 0 no DoS key is read or    *)
(* written and the quota guard decides as it does alone; with a resolved limit   *)
(* of 0 neither the quota counter nor its '-expires' key is read or written and  *)
(* the DoS guard decides as it does alone.                                       *)

\* the store at key k, or none
Entry(st, k) == IF k \in DOMAIN st THEN <<st[k]>> ELSE <<>>

\* what the guard alone decides for the n-th request of a window under limit l
AloneReached(n, l) == n > l
AloneRemaining(n, l) == IF n > l THEN 0 ELSE l - n

C14_GuardsIndependent ==
    [][\A s \in Slots :
          ResourceStep(s) /\ slots'[s].ck # "" =>
             LET r == slots'[s]
                 dl == Num(dos_limit(OwnControl(s)'))
                 qkeys == {r.ck, ExpiresKey(r.ck)}
                 seen == ObsOf(obs', r.ck)
             IN  /\ dl = 0 =>
                       /\ ~r.dos_data.set
                       /\ \A i \in 1..Len(r.calls) : r.calls[i][2] \in qkeys
                       /\ DOMAIN store' \subseteq qkeys
                       /\ r.rl_data.set =>
                             /\ r.rl_data.reached = AloneReached(seen.qn, Num(r.lim))
                             /\ r.rl_data.remaining = AloneRemaining(seen.qn, Num(r.lim))
                             /\ DictGet(r.ctx, "rate_limit") = r.lim
                             /\ DictGet(r.ctx, "rate_limit_remaining")
                                   = PyInt(r.rl_data.remaining)
                 /\ PyEqInt(r.lim, 0) =>
                       /\ ~r.rl_data.set
                       /\ \A i \in 1..Len(r.calls) : r.calls[i][2] \notin qkeys
                       /\ \A k \in qkeys : Entry(store', k) = Entry(store, k)
                       /\ r.dos_data.set =>
                             /\ r.dos_data.reached = AloneReached(seen.dn, dl)
                             /\ r.dos_data.remaining = AloneRemaining(seen.dn, dl)
                             /\ DictGet(r.ctx, "rate_limit") = PyInt(dl)
                             /\ DictGet(r.ctx, "rate_limit_remaining")
                                   = PyInt(r.dos_data.remaining)]_vars

\* a request without a quota limit was decided by the DoS guard while the store
\* held the client's quota counter
C14_Witness ==
    \E s \in DosDecided :
        /\ PyEqInt(slots[s].lim, 0)
        /\ slots[s].ck \in DOMAIN store
        /\ slots[s].dos_data.reached

\* a request was rejected by the quota guard with no DoS guard set
C14_WitnessQuotaAlone ==
    \E s \in QuotaDecided :
        /\ PyEqInt(dos_limit(OwnControl(s)), 0)
        /\ slots[s].rl_data.reached

-----------------------------------------------------------------------------
(* C15: the client key is the explicit identity attribute as a string if one is  *)
(* configured and present and non-empty on the request context, else the first   *)
(* address of the forwarded chain if present and non-empty, else the peer        *)
(* address; followed by the request path exactly if global_limit is false.  It   *)
(* is a function of these inputs alone.                                          *)

\* the value as a string
AsString(x) == IF x.t = "int" THEN ToString(x.v) ELSE x.s

ExpectedBase(q) ==
    LET name == provider.client_key
        explicit == /\ name \notin {PyNone, PyStr("")}
                    /\ name.s \in DOMAIN q.context
                    /\ q.context[name.s] \notin {PyNone, PyStr("")}
    IN  IF explicit THEN AsString(q.context[name.s])
        ELSE IF q.access_route # <<>> /\ q.access_route[1] # "" THEN q.access_route[1]
        ELSE q.remote_addr

ExpectedKey(q) ==
    IF routeCtl[q.path].d["global_limit"] = PyBool(FALSE)
    THEN ExpectedBase(q) \o q.path
    ELSE ExpectedBase(q)

-----------------------------------------------------------------------------
(* C16: with global_limit false the quota of a client is counted per route: its  *)
(* requests to two paths have two counters and a request to one path changes     *)
(* nothing for the other; with global_limit true the routes share one counter    *)
(* per client; two clients never touch each other's counters.                    *)

\* the counter of the client at address addr on path pa
CounterOf(addr, pa) ==
    IF routeCtl[pa].d["global_limit"] = PyBool(FALSE) THEN addr \o pa ELSE addr

C16_CountersPerRoute ==
    [][\A s \in Slots :
          ResourceStep(s) =>
             LET r == slots'[s]
                 own == CounterOf(r.req.remote_addr, r.req.path)
                 seen == ObsOf(obs', own)
             IN  /\ r.ck = own
                 /\ \A k \in (DOMAIN store \cup DOMAIN store') \ {own, ExpiresKey(own)} :
                       Entry(store', k) = Entry(store, k)
                 /\ r.rl_data.set
                 /\ r.rl_data.reached = AloneReached(seen.qn, Num(r.lim))
                 /\ r.rl_data.remaining = AloneRemaining(seen.qn, Num(r.lim))]_vars

\* with global_limit false a request to '/status' is admitted as the first of its
\* window while the client's counter for '/middleware' is at its limit and the
\* other client's counter is at 1
C16_Witness ==
    \E s \in QuotaDecided :
        /\ slots[s].ck = "10.0.0.1/status"
        /\ slots[s].rl_data.remaining = Num(slots[s].lim) - 1
        /\ "10.0.0.1/middleware" \in DOMAIN store
        /\ store["10.0.0.1/middleware"].val = Num(slots[s].lim)
        /\ "10.0.0.2/middleware" \in DOMAIN store
        /\ store["10.0.0.2/middleware"].val = 1

\* with global_limit true a request to '/status' is rejected after requests to
\* '/middleware' have used the limit
C16_WitnessShared ==
    \E s \in QuotaDecided :
        /\ slots[s].ck = "10.0.0.1"
        /\ slots[s].req.path = "/status"
        /\ slots[s].rl_data.reached
        /\ Seen(s).qn = Num(slots[s].lim) + 1

-----------------------------------------------------------------------------
(* C17: the quota limit of a request is authenticated_limit if the configured    *)
(* auth attribute is present on the request context and truthy (not None, False  *)
(* or empty), and unauthenticated_limit otherwise, also when no auth attribute   *)
(* is configured.                                                                *)

ExpectedAuthenticated(q) ==
    /\ provider.auth_key # PyNone
    /\ provider.auth_key.s \in DOMAIN q.context
    /\ q.context[provider.auth_key.s]
          \notin {PyNone, PyBool(FALSE), PyStr(""), PyInt(0)}

C17_LimitByAuthentication ==
    \A s \in Decided :
        LET c == OwnControl(s) IN
        /\ slots[s].lim = IF ExpectedAuthenticated(slots[s].req)
                          THEN c["authenticated_limit"]
                          ELSE c["unauthenticated_limit"]
        /\ DictGet(slots[s].ctx, "rate_limit") = slots[s].lim

\* a request whose user_id is False got the limit for requests without one, and
\* so did a request with a user_id when no auth attribute is configured
C17_Witness ==
    \E s \in Decided :
        /\ slots[s].lim = PyInt(1)
        /\ \/ DictGet(slots[s].req.context, "user_id") = PyBool(FALSE)
           \/ /\ provider.auth_key = PyNone
              /\ DictGet(slots[s].req.context, "user_id") = PyInt(123)

-----------------------------------------------------------------------------
(* C18: a malformed route override (a limit that is not a number) gives a        *)
(* ConfigurationError when the control is resolved, before any store call or     *)
(* decision for the request; it is not left to the time of the decision.         *)

\* the override of the route has a limit that is not a number (or None)
Malformed(pa) ==
    \E k \in {"authenticated_limit", "dos_limit", "unauthenticated_limit"} :
        k \in DOMAIN OverrideOf(pa) /\ OverrideOf(pa)[k].t = "str"

C18_MalformedAtResolution ==
    \A s \in Slots :
        slots[s].phase # "idle" /\ Malformed(slots[s].req.path) =>
            /\ slots[s].err = "ConfigurationError"
            /\ slots[s].calls = <<>>
            /\ slots[s].ctx = EmptyDict

-----------------------------------------------------------------------------
(* C19: the get-then-set sequence is not atomic, so the under-count is           *)
(* reachable: two requests of one client in flight together both read a count    *)
(* of 0 and both set the counter, after which both are admitted while the stored *)
(* count is 1.                                                                   *)

\* the requests the quota guard decided after reading a count of 0
ReadZero == {s \in QuotaDecided : slots[s].count = 0}

C19_UnderCount ==
    \A s1, s2 \in ReadZero :
        s1 # s2 /\ slots[s1].ck = slots[s2].ck =>
            /\ \A s \in {s1, s2} :
                  /\ ~slots[s].rl_data.reached
                  /\ slots[s].rl_data.remaining = Num(slots[s].lim) - 1
                  /\ \E i \in 1..Len(slots[s].calls) :
                        slots[s].calls[i] = <<SetCall(provider), slots[s].ck>>
            /\ store[slots[s1].ck].val = 1
            /\ Seen(s1).qn = 2

\* both requests have been admitted as the first of the window
C19_Witness ==
    /\ ReadZero = Slots
    /\ slots[1].ck = slots[2].ck
    /\ \A s \in Slots : slots[s].phase = "sent" /\ slots[s].status = 200
    /\ store[slots[1].ck].val = 1

-----------------------------------------------------------------------------
(* C20: the reset the quota guard reports is an absolute epoch time read back    *)
(* from the counter's expiry (the ttl on Redis, the '-expires' key on memcached);*)
(* when the client's key has no expiry to read (absent or expired) it is the     *)
(* current time, on memcached as on Redis.                                       *)
C20_ResetAt ==
    \A s \in QuotaDecided :
        slots[s].rl_data.reset = IF slots[s].count = 0 THEN now ELSE Seen(s).qend

-----------------------------------------------------------------------------
(* C10: for every merged control, enabled resolves to false when dos_limit,      *)
(* authenticated_limit and unauthenticated_limit all resolve to 0 (unset counts  *)
(* as 0), even if enabled is set true; if one of the three is not 0, enabled     *)
(* resolves to the configured value.                                             *)

\* the value the route's override, else the provider's argument, else the
\* constructor's default configures for key k
Configured(pa, k) ==
    LET over == ResourceControl(routeCtl[pa])
    IN  IF k \in DOMAIN over THEN over[k] ELSE provider.global_rlc[k]

AllLimitsZero(pa) ==
    \A k \in {"dos_limit", "authenticated_limit", "unauthenticated_limit"} :
        Configured(pa, k) \in {PyNone, PyInt(0)}

ExpectedEnabled(pa) == Configured(pa, "enabled") = PyBool(TRUE) /\ ~AllLimitsZero(pa)

\* the requests process_resource has handled
Handled == {s \in Slots : slots[s].phase \in {"routed", "responded", "sent"}}

C10_EnabledForcedFalse ==
    \A s \in Handled :
        LET pa == slots[s].req.path IN
        /\ provider.rlc = OwnControl(s)
        /\ Truthy(enabled(provider.rlc)) <=> ExpectedEnabled(pa)
        /\ (slots[s].ck # "") <=> ExpectedEnabled(pa)
        /\ ~ExpectedEnabled(pa) =>
              /\ slots[s].ctx = EmptyDict /\ slots[s].calls = <<>>
              /\ slots[s].phase = "sent" => slots[s].headers = EmptyDict

\* enabled is set true and every limit is 0 or unset: the request is not limited
C10_Witness ==
    \E s \in Handled :
        /\ Configured(slots[s].req.path, "enabled") = PyBool(TRUE)
        /\ AllLimitsZero(slots[s].req.path)
        /\ Configured(slots[s].req.path, "dos_limit") = PyNone
        /\ Configured(slots[s].req.path, "unauthenticated_limit") = PyInt(0)
        /\ slots[s].phase = "sent"
        /\ slots[s].body = "worked"

-----------------------------------------------------------------------------
(* C21: on memcached, requests handled one after another: whenever a client's    *)
(* quota counter is live its '-expires' entry is live too, expires at the same   *)
(* second, and holds that second, the epoch time at which the counter expires.   *)

\* the client keys the requests of the application resolve to
ClientKeys ==
    {client_key([provider EXCEPT !.rlc =
                    DictUpdate(provider.global_rlc, ResourceControl(routeCtl[q.path]))], q) :
        q \in SeqRequests}

-----------------------------------------------------------------------------
(* C22: the DoS bucket '{client_key}:{second}' is created by the first admitted  *)
(* request of its second with value 0 and a TTL of 1 second before it is         *)
(* incremented, on every backend; no bucket is live more than 1 second after its *)
(* creation, so buckets of past seconds do not accumulate.                       *)

\* the DoS buckets of client key ck that the store holds at second t
DosBuckets(ck, t) == {ts \in 0..t : IsLive(store, t, DosKey(ck, ts))}

C22_DosBucketTtl ==
    /\ \A ck \in ClientKeys :
          /\ \A ts \in DosBuckets(ck, now) :
                /\ store[DosKey(ck, ts)].exp # NoExpiry
                /\ store[DosKey(ck, ts)].exp <= ts + 1
          /\ Cardinality(DosBuckets(ck, now)) <= 1
    /\ \A s \in DosDecided :
          ~slots[s].dos_data.reached /\ Seen(s).dn = 1 =>
             \E i \in 1..Len(slots[s].calls) :
                /\ slots[s].calls[i][1] \in {"set", "setex"}
                /\ \E ts \in 0..now : slots[s].calls[i][2] = DosKey(slots[s].ck, ts)

-----------------------------------------------------------------------------
(* C23: the quota window is 30 minutes when no limit_window is configured, the   *)
(* configured value when that is a positive integer, and 15 minutes when         *)
(* limit_window is 0 or None; resolving it never fails for these inputs.         *)

\* the minutes the claim gives the route's window (the provider is given none)
ExpectedWindow(pa) ==
    LET over == OverrideOf(pa)
    IN  IF "limit_window" \notin DOMAIN over THEN 30
        ELSE IF over["limit_window"] \in {PyNone, PyInt(0)} THEN 15
        ELSE over["limit_window"].v

C23_WindowResolution ==
    \A s \in Slots :
        LET r == slots[s]
            w == ExpectedWindow(r.req.path)
        IN  r.phase # "idle" =>
               /\ r.err = ""
               /\ r.phase = "routed" /\ r.rl_data.set /\ r.count = 0 =>
                     /\ IsLive(store, now, r.ck)
                     /\ store[r.ck].exp = now + w * 60
               /\ r.rl_data.reached =>
                     DictGet(r.ctx, "rate_limit_description")
                        = PyStr("Client exceeded rate limit of " \o ToString(Num(r.lim))
                                   \o " requests per " \o ToString(w) \o " minutes.")

-----------------------------------------------------------------------------
(* C24: a rejection performs no increment.  A request the DoS guard rejects      *)
(* makes no write to the store at all; a request the quota guard rejects leaves  *)
(* the client's counter, its expiry and its '-expires' entry as they were.       *)

\* the store calls that read
ReadCalls == {"get", "ttl"}

C24_RejectionWritesNothing ==
    [][\A s \in Slots :
          ResourceStep(s) =>
             LET r == slots'[s] IN
             /\ r.dos_data.reached =>
                   /\ store' = store
                   /\ \A i \in 1..Len(r.calls) : r.calls[i][1] \in ReadCalls
                   /\ ~r.rl_data.set
             /\ r.rl_data.reached =>
                   /\ \A k \in {r.ck, ExpiresKey(r.ck)} : Entry(store', k) = Entry(store, k)
                   /\ \A i \in 1..Len(r.calls) :
                         r.calls[i][2] \in {r.ck, ExpiresKey(r.ck)} =>
                            r.calls[i][1] \in ReadCalls]_vars

\* the DoS guard has rejected a request while the store holds the bucket of the
\* second at the limit and the client's quota counter
C24_Witness ==
    \E s \in DosDecided :
        /\ slots[s].phase = "routed"
        /\ slots[s].dos_data.reached
        /\ IsLive(store, now, DosKey(slots[s].ck, now))
        /\ store[DosKey(slots[s].ck, now)].val = Num(dos_limit(OwnControl(s)))
        /\ IsLive(store, now, slots[s].ck)

\* the quota guard has rejected a request the DoS guard had admitted and counted;
\* the counter is at the limit
C24_WitnessQuota ==
    \E s \in QuotaDecided :
        /\ slots[s].phase = "routed"
        /\ slots[s].rl_data.reached
        /\ slots[s].dos_data.set
        /\ store[slots[s].ck].val = Num(slots[s].lim)

-----------------------------------------------------------------------------
(* C25: the quota window is a fixed window (requests handled one after another): *)
(* no admitted or rejected request of a window changes the expiry of the counter *)
(* the window's first request set; the counter expires limit_window * 60 seconds *)
(* after that request, and increments do not extend it.                          *)
C25_FixedWindow ==
    [][\A k \in ClientKeys :
          /\ IsLive(store, now, k) /\ IsLive(store', now', k) =>
                store'[k].exp = store[k].exp
          /\ IsLive(store', now', k) =>
                /\ store'[k].exp # NoExpiry
                /\ store'[k].exp = ObsOf(obs', k).qend]_vars

\* a request has been admitted and counted later than the second its window was
\* opened in
C25_Witness ==
    \E s \in QuotaDecided :
        /\ slots[s].phase = "routed"
        /\ slots[s].count >= 1
        /\ ~slots[s].rl_data.reached
        /\ store[slots[s].ck].val = slots[s].count + 1
        /\ store[slots[s].ck].exp - WindowSeconds < now

\* a request has been rejected later than the second its window was opened in
C25_WitnessRejected ==
    \E s \in QuotaDecided :
        /\ slots[s].phase = "routed"
        /\ slots[s].rl_data.reached
        /\ store[slots[s].ck].exp - WindowSeconds < now

-----------------------------------------------------------------------------
(* C26: after any sequence of requests and clock advances, the clock advancing   *)
(* and keys expiring between the store calls of one request included, every      *)
(* quota counter in the store has a finite expiry at most limit_window * 60      *)
(* seconds ahead; no counter is without a TTL.                                   *)
C26_CountersExpire ==
    \A k \in ClientKeys :
        IsLive(store, now, k) =>
            /\ store[k].exp # NoExpiry
            /\ store[k].exp <= now + WindowSeconds

-----------------------------------------------------------------------------
(* C27: the remaining recorded for a decision, admitted or rejected, is never    *)
(* negative, also when requests with different limits share one counter:         *)
(* requests with and without authentication of one client key, or routes with    *)
(* different limits under global_limit true.                                     *)
C27_RemainingNonNegative ==
    \A s \in Decided :
        /\ slots[s].rl_data.set => slots[s].rl_data.remaining >= 0
        /\ slots[s].dos_data.set => slots[s].dos_data.remaining >= 0
        /\ "rate_limit_remaining" \in DOMAIN slots[s].ctx =>
              Num(slots[s].ctx["rate_limit_remaining"]) >= 0

-----------------------------------------------------------------------------
(* C28: the DoS bucket incremented for an admitted request is the bucket whose   *)
(* count was read for the check, also when the clock advances to the next second *)
(* between the read and the increment; hence, requests being handled one after   *)
(* another, no bucket's count exceeds dos_limit.                                 *)

\* no bucket of the store counts more than the route's dos_limit
BucketsWithinLimit ==
    \A ck \in ClientKeys, pa \in Paths :
        \A ts \in DosBuckets(ck, now) :
            store[DosKey(ck, ts)].val
                <= Num(dos_limit(DictUpdate(provider.global_rlc, OverrideOf(pa))))

C28_SameBucket ==
    /\ \A s \in DosDecided :
          \A i \in 1..Len(slots[s].calls) :
             slots[s].calls[i][2] \in DosKeys(s) =>
                slots[s].calls[i][2] = slots[s].calls[1][2]
    /\ BucketsWithinLimit

-----------------------------------------------------------------------------
(* C29: every request the quota guard admits is counted, and its decision and    *)
(* remaining come from one observed count: if the counter expires between the    *)
(* two count reads, or before the increment, the request is handled as the first *)
(* of a new window; after the write of an admitted request the counter is live   *)
(* with value >= 1.                                                              *)

\* the step is the set, resp. the increment, of the request in slot s
CountStep(s) ==
    /\ slots[s].phase = "resource"
    /\ slots[s].pc \in {"q_set", "q_incr"}
    /\ slots'[s] # slots[s]
    /\ slots'[s].phase = "resource"

C29_AdmittedIsCounted ==
    [][\A s \in Slots :
          CountStep(s) =>
             LET r == slots'[s] IN
             /\ IsLive(store', now', r.ck)
             /\ store'[r.ck].val >= 1
             /\ store'[r.ck].exp = now' + WindowSeconds
                   \/ (IsLive(store, now, r.ck) /\ store'[r.ck].exp = store[r.ck].exp)
             /\ slots[s].pc = "q_incr" =>
                   r.rl_data.remaining = Num(r.lim) - store'[r.ck].val]_vars

-----------------------------------------------------------------------------
(* C30: the two backends decide alike.  For every sequence of requests handled   *)
(* one after another and clock advances between them, with the same controls and *)
(* client keys, the Memcache provider and the Redis provider give the same       *)
(* reached and remaining for every DoS and quota decision and the same reset for *)
(* every quota decision.                                                         *)
C30_BackendsAgree ==
    LET a == slots[1]
        b == twin.slot
    IN  a.phase \in {"routed", "responded", "sent"} =>
           /\ b.phase = a.phase
           /\ b.ck = a.ck
           /\ b.dos_data.set = a.dos_data.set
           /\ b.dos_data.reached = a.dos_data.reached
           /\ b.dos_data.remaining = a.dos_data.remaining
           /\ b.rl_data.set = a.rl_data.set
           /\ b.rl_data.reached = a.rl_data.reached
           /\ b.rl_data.remaining = a.rl_data.remaining
           /\ b.rl_data.reset = a.rl_data.reset

-----------------------------------------------------------------------------
(* C31: for every quota decision, the one for the first request of a new window  *)
(* included, the reset reported is the time at which the client's counter        *)
(* expires as the store stands after the decision, and retry_after is not        *)
(* negative.                                                                     *)
C31_ResetIsCounterExpiry ==
    \A s \in QuotaDecided :
        /\ slots[s].rl_data.retry_after >= 0
        /\ DictGet(slots[s].ctx, "retry_after") = PyInt(slots[s].rl_data.retry_after)
        /\ slots[s].phase = "routed" =>
              /\ IsLive(store, now, slots[s].ck)
              /\ slots[s].rl_data.reset = store[slots[s].ck].exp

-----------------------------------------------------------------------------
(* C32: over-admission under concurrency is slight: with at most two requests of *)
(* one client in flight at any time, the quota guard admits no more than         *)
(* limit + 1 requests within limit_window * 60 seconds of the first admitted     *)
(* one.                                                                          *)
C32_SlightOverAdmission ==
    \A s \in QuotaDecided : Seen(s).qadm <= Num(slots[s].lim) + 1

=============================================================================
